---------------------------- MODULE Spec2Model ----------------------------
(***************************************************************************)
(* Memento: a content-addressed event DAG (MemoryGraph, core.py) and the   *)
(* regions (region.py) that point into it.                                 *)
(*                                                                         *)
(* An event id is the digest of the canonical JSON of the event's payload  *)
(* and its sorted parents list.  The digest is taken to be injective, so   *)
(* an id is modelled by the canonical form itself: the payload and the     *)
(* multiset of the parents (what sorting a list keeps of it).              *)
(*                                                                         *)
(* A Region object is identified by its name: fork and merge create a      *)
(* region under a name that no live region has.                            *)
(*                                                                         *)
(* Six specifications:                                                     *)
(*   Spec          one caller of MemoryGraph, Region, RegionStore and      *)
(*                 MemoryQuery, each call one step;                        *)
(*   SpecRegions   the same caller without the direct add_event calls;     *)
(*   SpecThreads   two threads in add_event and _append_event, each        *)
(*                 statement one step;                                     *)
(*   SpecIdentity  hash_event and EventNode as functions of their          *)
(*                 arguments;                                              *)
(*   SpecRuntime   the Region class of runtime.py and its registry HEADS;  *)
(*   SpecSqlite    the same class with its SQLite save and load.           *)
(***************************************************************************)
EXTENDS Integers, Sequences, FiniteSets, TLC

\* ------------------------------------------------------------- bounds
\* The clock reads 0 .. MaxTime.
MaxTime == 1
\* No event is added to a store of MaxNodes nodes.
MaxNodes == 3
\* The longest parents list a direct caller of add_event passes.
MaxParents == 2
\* With two threads, no call starts on a store of MaxThreadNodes nodes.
MaxThreadNodes == 2
\* runtime.py: no more than MaxInstances Region instances are made.
MaxInstances == 3
\* runtime.py: no event is appended to an instance that has MaxEvents events.
MaxEvents == 1
\* runtime.py: load_from_sqlite makes no more than MaxLoaded instances beyond
\* MaxInstances.
MaxLoaded == 1

\* ------------------------------------------------------------- inputs
Contents == {"a"}
Tools == {"t"}
ToolResults == {"x"}
DirectOps == {"observe"}
\* A meta dict is the set of its items: json.dumps(..., sort_keys=True)
\* makes the order of the entries irrelevant to the id.
EmptyMeta == {}
RegionMetas == {{<<"role", "planner">>}}
DirectMetas == {EmptyMeta}
RootNames == {"A"}
ForkNames == {"B"}
MergeNames == {"M"}
Threads == {1, 2}
ThreadOps == {"observe", "plan"}

VARIABLES
    nodes,      \* MemoryGraph.nodes: id -> EventNode
    children,   \* MemoryGraph.children: id -> list of ids
    heads,      \* MemoryGraph.heads: set of ids
    regions,    \* the live Region objects: name -> [name, meta, heads]
    th,         \* the threads of the concurrent specification
    HEADS,      \* runtime.py, Region.HEADS: name -> the instance registered
    instances,  \* runtime.py, the Region instances made so far
    built,      \* the EventNode constructions of the identity specification
    db,         \* runtime.py, the SQLite database file
    sql         \* runtime.py, the last save_to_sqlite or load_from_sqlite call:
                \* the region it saved or returned, and whether it raised

vars == <<nodes, children, heads, regions, th, HEADS, instances, built, db, sql>>

storeVars == <<nodes, children, heads, regions, th>>

runtimeVars == <<HEADS, instances>>

identityVars == <<built>>

sqliteVars == <<db, sql>>

\* ------------------------------------------------------------- helpers
Range(s) == {s[i] : i \in DOMAIN s}

Count(s, x) == Cardinality({i \in DOMAIN s : s[i] = x})

\* sorted(parents): the order of the list is lost, its multiplicities kept.
Sorted(parents) == [x \in Range(parents) |-> Count(parents, x)]

\* list(a_set): Python iterates a set in an order the caller does not control.
ListOf(S) ==
    {s \in [1 .. Cardinality(S) -> S] : \A i, j \in DOMAIN s : i # j => s[i] # s[j]}

EmptyMap == [x \in {} |-> x]

MapPut(f, k, v) == [x \in DOMAIN f \cup {k} |-> IF x = k THEN v ELSE f[x]]

\* ------------------------------------------------------------- core.py
hash_event(content, parents) ==
    [content |-> content, parents |-> Sorted(parents)]

EventNode(op, content, timestamp, meta, parents) ==
    [op |-> op, content |-> content, timestamp |-> timestamp, meta |-> meta,
     parents |-> parents,
     id |-> hash_event([op |-> op, content |-> content,
                        timestamp |-> timestamp, meta |-> meta], parents)]

\* for p in parents: self.children[p].append(event.id)
RECURSIVE AppendChildren(_, _, _)
AppendChildren(ch, parents, eid) ==
    IF parents = <<>> THEN ch
    ELSE LET p == Head(parents)
             old == IF p \in DOMAIN ch THEN ch[p] ELSE <<>>
         IN AppendChildren(MapPut(ch, p, Append(old, eid)), Tail(parents), eid)

\* Mutant: the id is returned and the event is not stored.
add_event_not_stored(ns, ch, hs, op, content, meta, parents, ts) ==
    [nodes |-> ns, children |-> ch, heads |-> hs,
     id |-> EventNode(op, content, ts, meta, parents).id]

\* The store after add_event(op, content, meta, parents) at time ts.
add_event(ns, ch, hs, op, content, meta, parents, ts) ==
    LET event == EventNode(op, content, ts, meta, parents)
    IN IF event.id \in DOMAIN ns
       THEN [nodes |-> ns, children |-> ch, heads |-> hs, id |-> event.id]
       ELSE [nodes |-> MapPut(ns, event.id, event),
             children |-> AppendChildren(ch, parents, event.id),
             heads |-> (hs \ Range(parents)) \cup {event.id},
             id |-> event.id]

\* sorted(result, key=lambda e: e.timestamp): a stable sort.
RECURSIVE InsertByTimestamp(_, _)
InsertByTimestamp(sorted, e) ==
    IF sorted = <<>> THEN <<e>>
    ELSE IF sorted[Len(sorted)].timestamp <= e.timestamp THEN Append(sorted, e)
    ELSE Append(InsertByTimestamp(SubSeq(sorted, 1, Len(sorted) - 1), e),
                sorted[Len(sorted)])

RECURSIVE SortByTimestamp(_)
SortByTimestamp(seq) ==
    IF seq = <<>> THEN <<>>
    ELSE InsertByTimestamp(SortByTimestamp(SubSeq(seq, 1, Len(seq) - 1)),
                           seq[Len(seq)])

\* The while loop of MemoryGraph.traverse; keep is the set of ids filter_fn accepts.
RECURSIVE TraverseLoop(_, _, _, _, _)
TraverseLoop(ns, stack, visited, result, keep) ==
    IF stack = <<>> THEN result
    ELSE LET current == stack[Len(stack)]
             rest == SubSeq(stack, 1, Len(stack) - 1)
         IN IF current \in visited THEN TraverseLoop(ns, rest, visited, result, keep)
            ELSE IF current \notin DOMAIN ns
                 THEN TraverseLoop(ns, rest, visited, result, keep)
            ELSE TraverseLoop(ns, rest \o ns[current].parents,
                              visited \cup {current},
                              IF current \in keep THEN Append(result, ns[current])
                                                  ELSE result,
                              keep)

\* MemoryGraph.traverse; start is {} for None or {id}, headList is list(self.heads).
Traverse(ns, headList, start, keep) ==
    LET stack == IF start = {} THEN headList ELSE <<CHOOSE x \in start : TRUE>>
    IN SortByTimestamp(TraverseLoop(ns, stack, {}, <<>>, keep))

\* text in content: text is a substring of content.
Contains(text, content) ==
    \E i \in 0 .. Len(content) - Len(text) :
        SubSeq(content, i + 1, i + Len(text)) = text

\* The events of a list comprehension over self.nodes.values() that keeps
\* the ids in S: what it can be, one list for each order of the dict.
ScanOf(ns, S) == {[i \in DOMAIN l |-> ns[l[i]]] : l \in ListOf(S)}

\* MemoryGraph.find_by_op
find_by_op(ns, op) == ScanOf(ns, {e \in DOMAIN ns : ns[e].op = op})

\* MemoryGraph.search
search(ns, keyword) == ScanOf(ns, {e \in DOMAIN ns : Contains(keyword, ns[e].content)})

\* An id that add_event may be given before any node has it: the id of a
\* root event that a later call can store.
PhantomId ==
    EventNode("observe", "a", 0, EmptyMeta, <<>>).id

ParentLists ==
    UNION {[1 .. n -> DOMAIN nodes \cup {PhantomId}] : n \in 0 .. MaxParents}

\* A caller with no call in progress.
IdleThread ==
    [pc |-> "idle", kind |-> "", region |-> "", op |-> "", content |-> "",
     meta |-> {}, parents |-> <<>>, event |-> {}, i |-> 0, result |-> {}]

\* A database file that sqlite3.connect has just created: no table.  The
\* rows of a table are kept in the order they were inserted.
FreshDb == [tables |-> {}, events |-> <<>>, heads |-> <<>>]

\* No save_to_sqlite or load_from_sqlite call yet.
NoCall ==
    [call |-> "none", raised |-> FALSE, instance |-> 0,
     region |-> [name |-> "", parent |-> 0, meta |-> {}, events |-> <<>>,
                 hashes |-> <<>>]]

Init ==
    /\ nodes = EmptyMap
    /\ children = EmptyMap
    /\ heads = {}
    /\ regions = EmptyMap
    /\ th = [t \in Threads |-> IdleThread]
    /\ HEADS = EmptyMap
    /\ instances = <<>>
    /\ built = <<>>
    /\ db = FreshDb
    /\ sql = NoCall

\* time.time(): the wall clock, which may be read twice with one value and
\* may be set back; no order between two readings is assumed.
Clock == 0 .. MaxTime

\* MemoryGraph.add_event with an explicit parents list.
AddEvent(op, content, meta, parents, ts) ==
    /\ Cardinality(DOMAIN nodes) < MaxNodes
    /\ LET r == add_event(nodes, children, heads, op, content, meta, parents, ts)
       IN /\ nodes' = r.nodes
          /\ children' = r.children
          /\ heads' = r.heads
    /\ UNCHANGED <<regions, th, runtimeVars, identityVars, sqliteVars>>

\* Mutant: with parents omitted the event gets no parents.
AddEventDefaultNoParents(op, content, meta, ts) == AddEvent(op, content, meta, <<>>, ts)

\* MemoryGraph.add_event with parents omitted: list(self.heads) or [].
AddEventDefault(op, content, meta, ts) ==
    \E ps \in ListOf(heads) : AddEvent(op, content, meta, ps, ts)

\* ------------------------------------------------------------- region.py
\* Region.__init__: meta or {}, no heads.
Region(name, meta) ==
    [name |-> name, meta |-> IF meta = EmptyMeta THEN {} ELSE meta, heads |-> {}]

NewRegion(name, meta) ==
    /\ name \notin DOMAIN regions
    /\ regions' = MapPut(regions, name, Region(name, meta))
    /\ UNCHANGED <<nodes, children, heads, th, runtimeVars, identityVars, sqliteVars>>

\* Mutant: the regions that were given r's set of heads share it, and the
\* append changes it in place.
SetHeadsShared(regs, r, eid) ==
    [x \in DOMAIN regs |->
        IF regs[x].heads = regs[r].heads THEN [regs[x] EXCEPT !.heads = {eid}]
                                         ELSE regs[x]]

\* self.heads = {eid}
SetHeads(regs, r, eid) == [regs EXCEPT ![r].heads = {eid}]

\* Region._append_event
AppendEvent(r, op, content, ts) ==
    /\ Cardinality(DOMAIN nodes) < MaxNodes
    /\ \E parents \in ListOf(regions[r].heads) :
          LET g == add_event(nodes, children, heads, op, content,
                                  regions[r].meta, parents, ts)
          IN /\ nodes' = g.nodes
             /\ children' = g.children
             /\ heads' = g.heads
             /\ regions' = SetHeads(regions, r, g.id)
    /\ UNCHANGED <<th, runtimeVars, identityVars, sqliteVars>>

\* Mutant: observe appends under the op tag of plan.
ObserveAsPlan(r, content, ts) == AppendEvent(r, "plan", content, ts)

Observe(r, content, ts) == AppendEvent(r, "observe", content, ts)

Plan(r, content, ts) == AppendEvent(r, "plan", content, ts)

Effect(r, tool, result, ts) == AppendEvent(r, "effect", tool \o ": " \o result, ts)

Summarize(r, content, ts) == AppendEvent(r, "summarize", content, ts)

\* Region.fork: a region with a copy of the meta and of the heads.
ForkRegion(regs, r, new_name) ==
    [Region(new_name, regs[r].meta) EXCEPT !.heads = regs[r].heads]

Fork(r, new_name) ==
    /\ new_name \notin DOMAIN regions
    /\ regions' = MapPut(regions, new_name, ForkRegion(regions, r, new_name))
    /\ UNCHANGED <<nodes, children, heads, th, runtimeVars, identityVars, sqliteVars>>

\* new_name or f"{self.name}_MERGED_{other.name}"
MergeName(a, b, new_name) ==
    IF new_name = "" THEN a \o "_MERGED_" \o b ELSE new_name

\* Mutant: the heads of other are left out.
MergeHeadsSelfOnly(regs, a, b) == regs[a].heads

\* merged.heads = self.heads.union(other.heads)
MergeHeads(regs, a, b) == regs[a].heads \cup regs[b].heads

\* Region.merge: the merged region is built with no meta.
MergeRegion(regs, a, b, new_name) ==
    [Region(MergeName(a, b, new_name), EmptyMeta)
        EXCEPT !.heads = MergeHeads(regs, a, b)]

\* Mutant: merge stores a synthetic merge event and points the new region at it.
MergeWithEvent(a, b, new_name) ==
    /\ MergeName(a, b, new_name) \notin DOMAIN regions
    /\ LET g == add_event(nodes, children, heads, "merge", "", EmptyMeta,
                          CHOOSE l \in ListOf(MergeHeads(regions, a, b)) : TRUE, 0)
       IN /\ nodes' = g.nodes
          /\ children' = g.children
          /\ heads' = g.heads
          /\ regions' = MapPut(regions, MergeName(a, b, new_name),
                               [Region(MergeName(a, b, new_name), EmptyMeta)
                                   EXCEPT !.heads = {g.id}])
    /\ UNCHANGED <<th, runtimeVars, identityVars, sqliteVars>>

Merge(a, b, new_name) ==
    /\ MergeName(a, b, new_name) \notin DOMAIN regions
    /\ regions' = MapPut(regions, MergeName(a, b, new_name),
                         MergeRegion(regions, a, b, new_name))
    /\ UNCHANGED <<nodes, children, heads, th, runtimeVars, identityVars, sqliteVars>>

\* The while loop of Region._reachable_hashes.
RECURSIVE ReachableLoop(_, _, _)
ReachableLoop(ns, stack, visited) ==
    IF stack = <<>> THEN visited
    ELSE LET h == stack[Len(stack)]
             rest == SubSeq(stack, 1, Len(stack) - 1)
         IN IF h \in visited THEN ReachableLoop(ns, rest, visited)
            ELSE ReachableLoop(ns,
                               IF h \in DOMAIN ns THEN rest \o ns[h].parents ELSE rest,
                               visited \cup {h})

\* Mutant: the parents of a visited node are not followed.
ReachableHashesHeadsOnly(ns, region) == region.heads

\* Region._reachable_hashes: the set the loop returns is the same for every
\* order in which list(self.heads) fills the stack.
ReachableHashes(ns, region) ==
    ReachableLoop(ns, CHOOSE l \in ListOf(region.heads) : TRUE, {})

\* Mutant: replay without its filter, the whole traversal from graph.heads.
ReplayUnfiltered(region, ns, hs) ==
    {Traverse(ns, gl, {}, DOMAIN ns) : gl \in ListOf(hs)}

\* Region.replay: what it can return, one result for each order in which
\* list(graph.heads) fills the stack of traverse.
Replay(region, ns, hs) ==
    LET keep == ReachableHashes(ns, region)
    IN {Traverse(ns, gl, {}, keep) : gl \in ListOf(hs)}

Ids(events) == {events[i].id : i \in DOMAIN events}

\* Mutant: the difference taken the other way round.
DiffIdsReversed(selfIds, otherIds) == otherIds \ selfIds

\* diff_ids = set(self_events.keys()) - set(other_events.keys())
DiffIds(selfIds, otherIds) == selfIds \ otherIds

\* The last two lines of Region.diff, from the keys of the two dicts: what
\* they can return, one result for each order in which diff_ids is iterated.
DiffEvents(selfKeys, otherKeys, ns) ==
    {SortByTimestamp([i \in DOMAIN l |-> ns[l[i]]]) :
        l \in ListOf(DiffIds(selfKeys, otherKeys))}

\* The keys of {e.id: e for e in region.replay(graph)}, one set for each
\* result replay can return.
ReplayKeys(region, ns, hs) == {Ids(events) : events \in Replay(region, ns, hs)}

\* Region.diff: what it can return.
Diff(self, other, ns, hs) ==
    UNION {DiffEvents(sk, ok, ns) :
              sk \in ReplayKeys(self, ns, hs), ok \in ReplayKeys(other, ns, hs)}

\* The for loop of Region.compact over the sorted events.
RECURSIVE DedupLoop(_, _, _)
DedupLoop(events, seen, result) ==
    IF events = <<>> THEN result
    ELSE LET node == Head(events)
         IN IF node.id \in seen
            THEN DedupLoop(Tail(events), seen, result)
            ELSE DedupLoop(Tail(events), seen \cup {node.id}, Append(result, node))

\* Mutant: the newest event comes first.
CompactOfNewestFirst(events) ==
    LET c == DedupLoop(SortByTimestamp(events), {}, <<>>)
    IN [i \in 1 .. Len(c) |-> c[Len(c) + 1 - i]]

\* Region.compact after its first line: sort by timestamp, keep the first
\* node of each id.
CompactOf(events) == DedupLoop(SortByTimestamp(events), {}, <<>>)

\* Region.compact: what it can return, one result for each result of replay.
Compact(region, ns, hs) == {CompactOf(rp) : rp \in Replay(region, ns, hs)}

\* Region.to_dict: what it can return, one dict for each order of list(self.heads).
to_dict(region) ==
    {[name |-> region.name, meta |-> region.meta, heads |-> l] :
        l \in ListOf(region.heads)}

\* Mutant: the heads of the dict are not read.
from_dict_no_heads(d) == Region(d.name, d.meta)

\* Region.from_dict
from_dict(d) == [Region(d.name, d.meta) EXCEPT !.heads = Range(d.heads)]

\* ------------------------------------------------------------- region_store.py
\* json.dump of one region's dict: the meta dict is written as a list of
\* members, in the order the dict gives them; the heads list as an array.
JsonDumpRegion(d) ==
    {[name |-> d.name, meta |-> ml, heads |-> d.heads] : ml \in ListOf(d.meta)}

\* json.load of one region's object: the members make a dict again.
JsonLoadRegion(j) == [name |-> j.name, meta |-> Range(j.meta), heads |-> j.heads]

\* RegionStore.save_to_json of the store whose registry holds the regions
\* named in S, each under its name: the files it can write, key -> object.
save_to_json(regs, S) ==
    LET objects(n) == UNION {JsonDumpRegion(d) : d \in to_dict(regs[n])}
    IN {file \in [S -> UNION {objects(n) : n \in S}] :
           \A n \in S : file[n] \in objects(n)}

\* RegionStore.load_from_json: each object is read with from_dict and added
\* to a new store under the name it carries.
load_from_json(file) ==
    LET loaded(k) == from_dict(JsonLoadRegion(file[k]))
    IN [n \in {loaded(k).name : k \in DOMAIN file} |->
           loaded(CHOOSE k \in DOMAIN file : loaded(k).name = n)]

\* ------------------------------------------------------------- query.py
\* The queries of MemoryQuery with start=None: what each can return, one
\* result for each order in which list(graph.heads) fills the stack.
QueryOps == {"observe", "plan", "effect", "summarize"}
QueryTexts == {"a", ": ", "z"}

\* MemoryQuery.custom_query; keep is the set of ids filter_fn accepts.
custom_query(ns, hs, keep) == {Traverse(ns, gl, {}, keep) : gl \in ListOf(hs)}

\* MemoryQuery.search_text
search_text(ns, hs, text) ==
    custom_query(ns, hs, {e \in DOMAIN ns : Contains(text, ns[e].content)})

\* Mutant: the filter is left out.
filter_by_op_unfiltered(ns, hs, op) == custom_query(ns, hs, DOMAIN ns)

\* MemoryQuery.filter_by_op
filter_by_op(ns, hs, op) ==
    custom_query(ns, hs, {e \in DOMAIN ns : ns[e].op = op})

\* MemoryQuery.filter_by_meta: e.meta.get(key) == value
filter_by_meta(ns, hs, key, value) ==
    custom_query(ns, hs, {e \in DOMAIN ns : <<key, value>> \in ns[e].meta})

Next ==
    \/ \E op \in DirectOps, c \in Contents, m \in DirectMetas, ps \in ParentLists,
          ts \in Clock : AddEvent(op, c, m, ps, ts)
    \/ \E op \in DirectOps, c \in Contents, m \in DirectMetas, ts \in Clock :
          AddEventDefault(op, c, m, ts)
    \/ \E n \in RootNames, m \in RegionMetas : NewRegion(n, m)
    \/ \E r \in DOMAIN regions, c \in Contents, ts \in Clock : Observe(r, c, ts)
    \/ \E r \in DOMAIN regions, c \in Contents, ts \in Clock : Plan(r, c, ts)
    \/ \E r \in DOMAIN regions, t \in Tools, x \in ToolResults, ts \in Clock :
          Effect(r, t, x, ts)
    \/ \E r \in DOMAIN regions, c \in Contents, ts \in Clock : Summarize(r, c, ts)
    \/ \E r \in DOMAIN regions, n \in ForkNames : Fork(r, n)
    \/ \E a, b \in DOMAIN regions, n \in MergeNames : Merge(a, b, n)

Spec == Init /\ [][Next]_vars

\* The callers that reach the graph through regions only: regions made empty,
\* their appends, fork and merge, and no direct add_event call.
NextRegions ==
    \/ \E n \in RootNames, m \in RegionMetas : NewRegion(n, m)
    \/ \E r \in DOMAIN regions, c \in Contents, ts \in Clock : Observe(r, c, ts)
    \/ \E r \in DOMAIN regions, c \in Contents, ts \in Clock : Plan(r, c, ts)
    \/ \E r \in DOMAIN regions, t \in Tools, x \in ToolResults, ts \in Clock :
          Effect(r, t, x, ts)
    \/ \E r \in DOMAIN regions, c \in Contents, ts \in Clock : Summarize(r, c, ts)
    \/ \E r \in DOMAIN regions, n \in ForkNames : Fork(r, n)
    \/ \E a, b \in DOMAIN regions, n \in MergeNames : Merge(a, b, n)

SpecRegions == Init /\ [][NextRegions]_vars

\* ------------------------------------------------------------- threads
\* Two callers share the store and the regions.  CPython switches threads
\* between bytecodes, so a call is a sequence of steps: one for each statement
\* of add_event and of _append_event, and one for each turn of the loop.

Free(t) == th[t].pc \in {"idle", "done"}

\* A caller calls graph.add_event(op, content, meta, parents).
CallAddEvent(t, op, content, meta, parents) ==
    /\ Free(t)
    /\ Cardinality(DOMAIN nodes) < MaxThreadNodes
    /\ th' = [th EXCEPT ![t] = [IdleThread EXCEPT !.pc = "ae_build", !.kind = "add",
                                   !.op = op, !.content = content, !.meta = meta,
                                   !.parents = parents]]
    /\ UNCHANGED <<nodes, children, heads, regions, runtimeVars, identityVars, sqliteVars>>

\* A caller calls region.observe / plan / ... : _append_event(op, content, graph).
CallAppendEvent(t, r, op, content) ==
    /\ Free(t)
    /\ Cardinality(DOMAIN nodes) < MaxThreadNodes
    /\ th' = [th EXCEPT ![t] = [IdleThread EXCEPT !.pc = "ra_read", !.kind = "append",
                                   !.region = r, !.op = op, !.content = content]]
    /\ UNCHANGED <<nodes, children, heads, regions, runtimeVars, identityVars, sqliteVars>>

\* region.py 25-26: parents = list(self.heads); the call passes self.meta.
ReadHeads(t) ==
    /\ th[t].pc = "ra_read"
    /\ \E parents \in ListOf(regions[th[t].region].heads) :
          th' = [th EXCEPT ![t].parents = parents,
                           ![t].meta = regions[th[t].region].meta,
                           ![t].pc = "ae_build"]
    /\ UNCHANGED <<nodes, children, heads, regions, runtimeVars, identityVars, sqliteVars>>

\* core.py 39-41: the timestamp is read and the event, with its id, is built.
BuildEvent(t) ==
    /\ th[t].pc = "ae_build"
    /\ \E ts \in Clock :
          th' = [th EXCEPT ![t].event = {EventNode(th[t].op, th[t].content, ts,
                                                    th[t].meta, th[t].parents)},
                           ![t].pc = "ae_check"]
    /\ UNCHANGED <<nodes, children, heads, regions, runtimeVars, identityVars, sqliteVars>>

\* core.py 43-44: if event.id in self.nodes: return event.id
CheckExists(t) ==
    /\ th[t].pc = "ae_check"
    /\ \E e \in th[t].event :
          th' = IF e.id \in DOMAIN nodes
                THEN [th EXCEPT ![t].result = {e.id}, ![t].pc = "ae_return"]
                ELSE [th EXCEPT ![t].pc = "ae_insert"]
    /\ UNCHANGED <<nodes, children, heads, regions, runtimeVars, identityVars, sqliteVars>>

\* core.py 46: self.nodes[event.id] = event
InsertNode(t) ==
    /\ th[t].pc = "ae_insert"
    /\ \E e \in th[t].event : nodes' = MapPut(nodes, e.id, e)
    /\ th' = [th EXCEPT ![t].i = 1,
                        ![t].pc = IF th[t].parents = <<>> THEN "ae_heads_diff"
                                                          ELSE "ae_children"]
    /\ UNCHANGED <<children, heads, regions, runtimeVars, identityVars, sqliteVars>>

\* core.py 48-49: one turn of the loop, self.children[p].append(event.id)
AppendChild(t) ==
    /\ th[t].pc = "ae_children"
    /\ \E e \in th[t].event :
          children' = AppendChildren(children, <<th[t].parents[th[t].i]>>, e.id)
    /\ th' = [th EXCEPT ![t].i = @ + 1,
                        ![t].pc = IF th[t].i = Len(th[t].parents) THEN "ae_heads_diff"
                                                                   ELSE "ae_children"]
    /\ UNCHANGED <<nodes, heads, regions, runtimeVars, identityVars, sqliteVars>>

\* core.py 51: self.heads.difference_update(parents)
HeadsDifference(t) ==
    /\ th[t].pc = "ae_heads_diff"
    /\ heads' = heads \ Range(th[t].parents)
    /\ th' = [th EXCEPT ![t].pc = "ae_heads_add"]
    /\ UNCHANGED <<nodes, children, regions, runtimeVars, identityVars, sqliteVars>>

\* core.py 52, 54: self.heads.add(event.id); return event.id
HeadsAdd(t) ==
    /\ th[t].pc = "ae_heads_add"
    /\ \E e \in th[t].event :
          /\ heads' = heads \cup {e.id}
          /\ th' = [th EXCEPT ![t].result = {e.id}, ![t].pc = "ae_return"]
    /\ UNCHANGED <<nodes, children, regions, runtimeVars, identityVars, sqliteVars>>

\* add_event has returned: its caller is done, or region.py 27 assigns
\* self.heads = {eid}.
Return(t) ==
    /\ th[t].pc = "ae_return"
    /\ IF th[t].kind = "add"
       THEN regions' = regions
       ELSE \E eid \in th[t].result : regions' = SetHeads(regions, th[t].region, eid)
    /\ th' = [th EXCEPT ![t].pc = "done"]
    /\ UNCHANGED <<nodes, children, heads, runtimeVars, identityVars, sqliteVars>>

\* The parents lists of the concurrent callers: stored ids, none twice.
DistinctParentLists ==
    UNION {ListOf(S) : S \in {P \in SUBSET DOMAIN nodes : Cardinality(P) <= MaxParents}}

NextThreads ==
    \/ \E n \in RootNames, m \in RegionMetas : NewRegion(n, m)
    \/ \E t \in Threads, op \in ThreadOps, c \in Contents, m \in DirectMetas,
          ps \in DistinctParentLists : CallAddEvent(t, op, c, m, ps)
    \/ \E t \in Threads, r \in DOMAIN regions, op \in ThreadOps, c \in Contents :
          CallAppendEvent(t, r, op, c)
    \/ \E t \in Threads : ReadHeads(t)
    \/ \E t \in Threads : BuildEvent(t)
    \/ \E t \in Threads : CheckExists(t)
    \/ \E t \in Threads : InsertNode(t)
    \/ \E t \in Threads : AppendChild(t)
    \/ \E t \in Threads : HeadsDifference(t)
    \/ \E t \in Threads : HeadsAdd(t)
    \/ \E t \in Threads : Return(t)

SpecThreads == Init /\ [][NextThreads]_vars

\* ------------------------------------------------------------- runtime.py
\* The Region class of runtime.py keeps its events itself and registers its
\* instances by name in the class attribute HEADS.  An instance is known by
\* its place in the sequence instances; a caller may hold any of them.
RuntimeNames == {"P", "Q"}
RuntimeMetas == {{<<"agent_type", "planner">>}}

\* structural_hash(event): the digest of the event's canonical JSON, taken
\* to be injective, so the canonical form itself.
structural_hash(event) == event

\* Region.__init__ of runtime.py; parent is 0 for None.
RuntimeRegion(name, parent, meta) ==
    [name |-> name, parent |-> parent,
     meta |-> IF meta = EmptyMeta THEN {} ELSE meta,
     events |-> <<>>, hashes |-> <<>>]

\* Region.HEADS[self.name] = self, the last line of __init__.
Register(H, name, i) == MapPut(H, name, i)

RuntimeNew(name, meta) ==
    /\ Len(instances) < MaxInstances
    /\ instances' = Append(instances, RuntimeRegion(name, 0, meta))
    /\ HEADS' = Register(HEADS, name, Len(instances) + 1)
    /\ UNCHANGED <<storeVars, identityVars, sqliteVars>>

\* Region._append_event of runtime.py
RuntimeAppendEvent(i, op, content, ts) ==
    /\ Len(instances[i].events) < MaxEvents
    /\ LET event == [op |-> op, content |-> content, timestamp |-> ts,
                     agent |-> instances[i].name, meta |-> instances[i].meta]
       IN instances' = [instances EXCEPT
                           ![i].events = Append(@, event),
                           ![i].hashes = Append(@, structural_hash(event))]
    /\ HEADS' = Register(HEADS, instances[i].name, i)
    /\ UNCHANGED <<storeVars, identityVars, sqliteVars>>

RuntimeObserve(i, content, ts) == RuntimeAppendEvent(i, "observe", content, ts)

RuntimePlan(i, content, ts) == RuntimeAppendEvent(i, "plan", content, ts)

RuntimeEffect(i, tool, result, ts) ==
    RuntimeAppendEvent(i, "effect", tool \o ": " \o result, ts)

RuntimeSummarize(i, content, ts) == RuntimeAppendEvent(i, "summarize", content, ts)

\* name or f"{self.name}-fork"
ForkName(i, name) == IF name = "" THEN instances[i].name \o "-fork" ELSE name

\* Region.fork of runtime.py: the events and hashes lists are copied.
RuntimeFork(i, name) ==
    /\ Len(instances) < MaxInstances
    /\ instances' = Append(instances,
                        [RuntimeRegion(ForkName(i, name), i, instances[i].meta)
                            EXCEPT !.events = instances[i].events,
                                   !.hashes = instances[i].hashes])
    /\ HEADS' = Register(HEADS, ForkName(i, name), Len(instances) + 1)
    /\ UNCHANGED <<storeVars, identityVars, sqliteVars>>

\* {**self.meta, **other.meta}: the entries of other, and those of self
\* whose key other does not have.
MergeMeta(a, b) == b \cup {x \in a : \A y \in b : y[1] # x[1]}

\* The for loop of Region.merge of runtime.py over the sorted events.
RECURSIVE MergeLoop(_, _, _)
MergeLoop(events, seen_hashes, merged) ==
    IF events = <<>> THEN merged
    ELSE LET event == Head(events)
             h == structural_hash(event)
         IN IF h \in seen_hashes
            THEN MergeLoop(Tail(events), seen_hashes, merged)
            ELSE MergeLoop(Tail(events), seen_hashes \cup {h},
                           [merged EXCEPT !.events = Append(@, event),
                                          !.hashes = Append(@, h)])

\* name or f"{self.name}_MERGED_{other.name}"
RuntimeMergeName(i, j, name) ==
    IF name = "" THEN instances[i].name \o "_MERGED_" \o instances[j].name ELSE name

\* Region.merge of runtime.py
RuntimeMerge(i, j, name) ==
    /\ Len(instances) < MaxInstances
    /\ instances' = Append(instances,
                        MergeLoop(SortByTimestamp(instances[i].events \o instances[j].events),
                                  {},
                                  RuntimeRegion(RuntimeMergeName(i, j, name), 0,
                                                MergeMeta(instances[i].meta,
                                                          instances[j].meta))))
    /\ HEADS' = Register(HEADS, RuntimeMergeName(i, j, name), Len(instances) + 1)
    /\ UNCHANGED <<storeVars, identityVars, sqliteVars>>

\* Mutant: the names in keep are the ones deleted.
gc_deletes_kept(H, keep) ==
    LET to_delete == {r \in DOMAIN H : r \in keep}
    IN [n \in DOMAIN H \ to_delete |-> H[n]]

\* Region.gc: HEADS after the call.
gc(H, keep) ==
    LET to_delete == {r \in DOMAIN H : r \notin keep}
    IN [n \in DOMAIN H \ to_delete |-> H[n]]

Gc(keep) ==
    /\ HEADS' = gc(HEADS, keep)
    /\ UNCHANGED <<instances, storeVars, identityVars, sqliteVars>>

\* Region.get_head; {} for None.
get_head(H, name) == IF name \in DOMAIN H THEN {H[name]} ELSE {}

NextRuntime ==
    \/ \E n \in RuntimeNames, m \in RuntimeMetas : RuntimeNew(n, m)
    \/ \E i \in DOMAIN instances, c \in Contents, ts \in Clock : RuntimeObserve(i, c, ts)
    \/ \E i \in DOMAIN instances, c \in Contents, ts \in Clock : RuntimePlan(i, c, ts)
    \/ \E i \in DOMAIN instances, t \in Tools, x \in ToolResults, ts \in Clock :
          RuntimeEffect(i, t, x, ts)
    \/ \E i \in DOMAIN instances, c \in Contents, ts \in Clock :
          RuntimeSummarize(i, c, ts)
    \/ \E i \in DOMAIN instances, n \in RuntimeNames \cup {""} : RuntimeFork(i, n)
    \/ \E i, j \in DOMAIN instances, n \in RuntimeNames \cup {""} : RuntimeMerge(i, j, n)
    \/ \E keep \in SUBSET RuntimeNames : Gc(keep)

SpecRuntime == Init /\ [][NextRuntime]_vars

\* ------------------------------------------------------------- runtime.py, SQLite
\* A database file is the set of its tables and the rows of events and of
\* heads.  A heads row is its key, region: the timestamp column holds
\* created_at, a clock reading that __init__ takes, that this statement alone
\* reads and that no code reads back from the table.

\* A database that has both tables already, from another program or from
\* an earlier version of this one.
SchemaDb == [tables |-> {"events", "heads"}, events |-> <<>>, heads |-> <<>>]

InitialDbs == {FreshDb, SchemaDb}

\* The names the regions of the SQLite specification are made, forked and
\* merged under: a merge of two regions named P is a region named P whose
\* events are all its own.
SqliteRootNames == {"P"}
SqliteForkNames == {"Q"}
SqliteMergeNames == {"P"}

\* json.dumps(meta): the items of the dict, in the order the dict has them.
JsonDumps(meta) == CHOOSE l \in ListOf(meta) : TRUE

\* json.loads(meta_json): the dict of the items.
JsonLoads(meta_json) == Range(meta_json)

\* DELETE FROM events WHERE region = ?
DeleteEvents(d, name) ==
    LET Other(row) == row.region # name
    IN [d EXCEPT !.events = SelectSeq(d.events, Other)]

\* CREATE TABLE IF NOT EXISTS
CreateTable(d, t) == [d EXCEPT !.tables = @ \cup {t}]

\* for event, h in zip(self.events, self.hashes): INSERT INTO events ...
RECURSIVE InsertEvents(_, _, _, _)
InsertEvents(d, name, events, hashes) ==
    IF events = <<>> \/ hashes = <<>> THEN d
    ELSE LET event == Head(events)
             row == [region |-> name, timestamp |-> event.timestamp,
                     op |-> event.op, content |-> event.content,
                     meta |-> JsonDumps(event.meta), hash |-> Head(hashes)]
         IN InsertEvents([d EXCEPT !.events = Append(@, row)], name,
                         Tail(events), Tail(hashes))

\* INSERT OR REPLACE INTO heads: region is the primary key, a row that has
\* the key is deleted before the new row is inserted.
InsertOrReplaceHead(d, name) ==
    LET Other(row) == row.region # name
    IN [d EXCEPT !.heads = Append(SelectSeq(d.heads, Other), [region |-> name])]

\* Region.save_to_sqlite, statement by statement: whether it raised, and the
\* database after it.  The first statement is the DELETE: on a database that
\* has no events table it raises sqlite3.OperationalError, the statements
\* after it are not executed and nothing is committed.
save_to_sqlite(d, region) ==
    IF "events" \notin d.tables THEN [raised |-> TRUE, db |-> d]
    ELSE LET d1 == DeleteEvents(d, region.name)
             d2 == CreateTable(d1, "events")
             d3 == CreateTable(d2, "heads")
             d4 == InsertEvents(d3, region.name, region.events, region.hashes)
         IN [raised |-> FALSE, db |-> InsertOrReplaceHead(d4, region.name)]

SaveToSqlite(i) ==
    /\ LET saved == save_to_sqlite(db, instances[i])
       IN /\ db' = saved.db
          /\ sql' = [call |-> "save", raised |-> saved.raised, instance |-> i,
                     region |-> instances[i]]
    /\ UNCHANGED <<runtimeVars, storeVars, identityVars>>

\* SELECT ... FROM events WHERE region = ?
SelectEvents(d, name) ==
    LET Mine(row) == row.region = name
    IN SelectSeq(d.events, Mine)

\* ORDER BY timestamp: the rows by timestamp; SQL leaves open the order of
\* rows that have the same timestamp.
OrderByTimestamp(rows) ==
    {[k \in DOMAIN rows |-> rows[p[k]]] : p \in
        {q \in ListOf(DOMAIN rows) :
            \A i, j \in DOMAIN rows :
                i < j => rows[q[i]].timestamp <= rows[q[j]].timestamp}}

\* for row in c.fetchall(): the event is made again from four columns and
\* the name asked for, and hashed again; the hash column is not read.
RECURSIVE LoadLoop(_, _)
LoadLoop(rows, region) ==
    IF rows = <<>> THEN region
    ELSE LET row == Head(rows)
             meta == JsonLoads(row.meta)
             event == [timestamp |-> row.timestamp, op |-> row.op,
                       content |-> row.content, meta |-> meta,
                       agent |-> region.name]
         IN LoadLoop(Tail(rows),
                     [region EXCEPT !.events = Append(@, event),
                                    !.hashes = Append(@, structural_hash(event)),
                                    !.meta = meta])

\* Region.load_from_sqlite: cls(region_name) makes and registers the region
\* before the SELECT, which raises on a database that has no events table.
LoadFromSqlite(name) ==
    /\ Len(instances) < MaxInstances + MaxLoaded
    /\ IF "events" \notin db.tables
       THEN instances' = Append(instances, RuntimeRegion(name, 0, EmptyMeta))
       ELSE \E rows \in OrderByTimestamp(SelectEvents(db, name)) :
                instances' = Append(instances,
                                    LoadLoop(rows, RuntimeRegion(name, 0, EmptyMeta)))
    /\ sql' = [call |-> "load", raised |-> "events" \notin db.tables,
               instance |-> Len(instances) + 1,
               region |-> instances'[Len(instances) + 1]]
    /\ HEADS' = Register(HEADS, name, Len(instances) + 1)
    /\ UNCHANGED <<db, storeVars, identityVars>>

InitSqlite ==
    /\ nodes = EmptyMap
    /\ children = EmptyMap
    /\ heads = {}
    /\ regions = EmptyMap
    /\ th = [t \in Threads |-> IdleThread]
    /\ HEADS = EmptyMap
    /\ instances = <<>>
    /\ built = <<>>
    /\ db \in InitialDbs
    /\ sql = NoCall

NextSqlite ==
    \/ \E n \in SqliteRootNames, m \in RuntimeMetas : RuntimeNew(n, m)
    \/ \E i \in DOMAIN instances, c \in Contents, ts \in Clock : RuntimeObserve(i, c, ts)
    \/ \E i \in DOMAIN instances, n \in SqliteForkNames : RuntimeFork(i, n)
    \/ \E i, j \in DOMAIN instances, n \in SqliteMergeNames : RuntimeMerge(i, j, n)
    \/ \E i \in DOMAIN instances : SaveToSqlite(i)
    \/ \E n \in RuntimeNames : LoadFromSqlite(n)

SpecSqlite == InitSqlite /\ [][NextSqlite]_vars

\* ------------------------------------------------------------- identity
\* hash_event and EventNode.__post_init__ as functions of their arguments:
\* two EventNodes are constructed from arguments drawn at the start.
MetaKeys == {"role", "task"}
MetaValues == {"planner"}
IdentityOps == {"observe", "plan"}
IdentityParents == {"p", "q"}

\* The items of a dict in the order they were inserted: no key twice.
MetaItemLists ==
    UNION {{l \in [1 .. n -> MetaKeys \X MetaValues] :
               \A i, j \in 1 .. n : i # j => l[i][1] # l[j][1]} :
           n \in 0 .. Cardinality(MetaKeys)}

IdentityParentLists == UNION {[1 .. n -> IdentityParents] : n \in 0 .. MaxParents}

\* The dict of a list of items; json.dumps(..., sort_keys=True) writes its
\* items by key, whatever the order they were inserted in.
DictOf(items) == Range(items)

EventArgs ==
    [op : IdentityOps, content : Contents, timestamp : Clock,
     meta : MetaItemLists, parents : IdentityParentLists]

InitIdentity ==
    /\ nodes = EmptyMap
    /\ children = EmptyMap
    /\ heads = {}
    /\ regions = EmptyMap
    /\ th = [t \in Threads |-> IdleThread]
    /\ HEADS = EmptyMap
    /\ instances = <<>>
    /\ built \in [1 .. 2 -> {[args |-> a, id |-> {}] : a \in EventArgs}]
    /\ db = FreshDb
    /\ sql = NoCall

\* EventNode(op=..., content=..., timestamp=..., meta=..., parents=...)
Construct(i) ==
    /\ built[i].id = {}
    /\ LET a == built[i].args
       IN built' = [built EXCEPT ![i].id =
                       {EventNode(a.op, a.content, a.timestamp, DictOf(a.meta),
                                  a.parents).id}]
    /\ UNCHANGED <<storeVars, runtimeVars, sqliteVars>>

NextIdentity == \E i \in 1 .. 2 : Construct(i)

SpecIdentity == InitIdentity /\ [][NextIdentity]_vars

\* ------------------------------------------------------------- claims
\* The stored events reachable from a set of ids along parents links.
RECURSIVE Closure(_, _)
Closure(ns, S) ==
    LET next == S \cup UNION {Range(ns[x].parents) : x \in S \cap DOMAIN ns}
    IN IF next = S THEN S ELSE Closure(ns, next)

Reachable(ns, H) == Closure(ns, H) \cap DOMAIN ns

IsAncestor(ns, h, g) == h # g /\ h \in Closure(ns, {g})

HeadsMinimal(ns, H) == \A h, g \in H : ~IsAncestor(ns, h, g)

NoRepeat(events) ==
    \A i, j \in DOMAIN events : i # j => events[i].id # events[j].id

TimestampOrdered(events) ==
    \A i, j \in DOMAIN events : i < j => events[i].timestamp <= events[j].timestamp

\* C1: the region A.merge(B) returns has no head that is a transitive ancestor
\* of another of its heads.
C1_MergeHeadsMinimal ==
    [][\A a, b \in DOMAIN regions, n \in MergeNames :
          Merge(a, b, n) =>
              HeadsMinimal(nodes, regions'[MergeName(a, b, n)].heads)]_vars

\* C2: add_event with a parent that is not stored returns no id and leaves
\* nodes, children and heads as they were.
C2_MissingParentRejected ==
    [][\A op \in DirectOps, c \in Contents, m \in DirectMetas, ps \in ParentLists,
          ts \in Clock :
          (AddEvent(op, c, m, ps, ts) /\ \E i \in DOMAIN ps : ps[i] \notin DOMAIN nodes)
              => /\ nodes' = nodes
                 /\ children' = children
                 /\ heads' = heads]_vars

SameLogicalEvent(e, op, c, ts, m, ps) ==
    /\ e.op = op
    /\ e.content = c
    /\ e.timestamp = ts
    /\ e.meta = m
    /\ Range(e.parents) = Range(ps)

\* C3: add_event of an event whose op, content, timestamp, meta and parent set
\* are those of a stored event returns that event's id and leaves the node
\* count, children and heads as they were.  Stated for parents that are all
\* stored, so that no missing parent is involved.
C3_AppendIdempotent ==
    [][\A op \in DirectOps, c \in Contents, m \in DirectMetas, ps \in ParentLists,
          ts \in Clock :
          \A e \in DOMAIN nodes :
              (/\ AddEvent(op, c, m, ps, ts)
               /\ Range(ps) \subseteq DOMAIN nodes
               /\ SameLogicalEvent(nodes[e], op, c, ts, m, ps))
                  => /\ add_event(nodes, children, heads, op, c, m, ps, ts).id = e
                     /\ Cardinality(DOMAIN nodes') = Cardinality(DOMAIN nodes)
                     /\ children' = children
                     /\ heads' = heads]_vars

\* What does hold of the code: the same, for a parents list that names each
\* parent as often as the stored event's list does.
AppendIdempotentSameMultiset ==
    [][\A op \in DirectOps, c \in Contents, m \in DirectMetas, ps \in ParentLists,
          ts \in Clock :
          \A e \in DOMAIN nodes :
              (/\ AddEvent(op, c, m, ps, ts)
               /\ SameLogicalEvent(nodes[e], op, c, ts, m, ps)
               /\ Sorted(nodes[e].parents) = Sorted(ps))
                  => /\ add_event(nodes, children, heads, op, c, m, ps, ts).id = e
                     /\ nodes' = nodes
                     /\ children' = children
                     /\ heads' = heads]_vars

Appends(r) ==
    \E ts \in Clock :
        \/ \E c \in Contents : Observe(r, c, ts) \/ Plan(r, c, ts) \/ Summarize(r, c, ts)
        \/ \E t \in Tools, x \in ToolResults : Effect(r, t, x, ts)

\* C4: a fork starts with the heads and meta of its source, and an append on
\* one region leaves the heads and meta of every other region as they were.
C4_ForkIsolation ==
    [][/\ \A r \in DOMAIN regions, n \in ForkNames :
              Fork(r, n) => /\ regions'[n].heads = regions[r].heads
                            /\ regions'[n].meta = regions[r].meta
                            /\ regions'[r] = regions[r]
       /\ \A r, r2 \in DOMAIN regions :
              regions'[r] = regions[r] \/ r = r2 \/ ~Appends(r2)]_vars

\* A fork (or its source) has appended past the heads the other still has.
C4_Witness ==
    \E r, r2 \in DOMAIN regions : \E e \in DOMAIN nodes :
        /\ r # r2
        /\ regions[r2].heads = {e}
        /\ regions[r].heads # {}
        /\ regions[r].heads = Range(nodes[e].parents)
        /\ regions[r].meta = regions[r2].meta

RegionReach(r) == Reachable(nodes, regions[r].heads)

\* C5: replay of A.merge(B) holds exactly the stored events reachable from
\* A.heads or from B.heads, each once.
C5_MergeComplete ==
    \A a, b \in DOMAIN regions :
        \A rp \in Replay(MergeRegion(regions, a, b, "M"), nodes, heads) :
            /\ Ids(rp) = RegionReach(a) \cup RegionReach(b)
            /\ NoRepeat(rp)

\* A merged region of two regions that each hold an event the other lacks.
C5_Witness ==
    \E a, b, m \in DOMAIN regions :
        /\ regions[m] = MergeRegion(regions, a, b, m)
        /\ RegionReach(a) \ RegionReach(b) # {}
        /\ RegionReach(b) \ RegionReach(a) # {}
        /\ RegionReach(a) \cap RegionReach(b) # {}

\* C6: replay of a region is exactly the stored events reachable from its
\* heads, each once, in non-decreasing timestamp order.
C6_ReplayExact ==
    \A r \in DOMAIN regions :
        \A rp \in Replay(regions[r], nodes, heads) :
            /\ Ids(rp) = RegionReach(r)
            /\ \A i \in DOMAIN rp : rp[i] = nodes[rp[i].id]
            /\ NoRepeat(rp)
            /\ TimestampOrdered(rp)

\* A region with events of two timestamps, in a store that also holds an
\* event of another branch and a node whose parent is not stored.
C6_Witness ==
    \E r \in DOMAIN regions :
        /\ \E e, f \in RegionReach(r) : nodes[e].timestamp < nodes[f].timestamp
        /\ \E e \in DOMAIN nodes \ RegionReach(r) :
               \E p \in Range(nodes[e].parents) : p \notin DOMAIN nodes

\* Region.diff for every pair of live regions, each region replayed once.
KeysTable == [r \in DOMAIN regions |-> ReplayKeys(regions[r], nodes, heads)]

DiffTable ==
    CHOOSE t \in {[a \in DOMAIN regions |-> [b \in DOMAIN regions |->
                     UNION {DiffEvents(sk, ok, nodes) : sk \in keys[a], ok \in keys[b]}]] :
                  keys \in {KeysTable}} : TRUE

ReachTable == [r \in DOMAIN regions |-> RegionReach(r)]

\* C7: self.diff(other) is exactly the events reachable from self.heads and
\* not from other.heads.
C7_DiffDirection ==
    \A diff \in {DiffTable}, reach \in {ReachTable} :
       \A a, b \in DOMAIN regions :
           \A d \in diff[a][b] :
               /\ Ids(d) = reach[a] \ reach[b]
               /\ NoRepeat(d)

\* A region merged from a region and a fork of it that has appended: its
\* diff against the source is not empty, the source's diff against it is.
C7_Witness ==
    \E a, b, m \in DOMAIN regions :
        /\ a # b
        /\ regions[m] = MergeRegion(regions, a, b, m)
        /\ regions[a].heads # {}
        /\ RegionReach(a) \subseteq RegionReach(b)
        /\ RegionReach(m) \ RegionReach(a) # {}
        /\ RegionReach(a) \ RegionReach(m) = {}

\* C8: diff(A,B), diff(B,A) and the events reachable from both are pairwise
\* disjoint and make up the events reachable from either; diff(A,A) is empty.
C8_DiffPartition ==
    \A diff \in {DiffTable}, reach \in {ReachTable} :
       \A a, b \in DOMAIN regions :
           /\ \A d \in diff[a][a] : d = <<>>
           /\ \A ab \in diff[a][b], ba \in diff[b][a] :
                 LET both == reach[a] \cap reach[b]
                 IN /\ Ids(ab) \cap Ids(ba) = {}
                    /\ Ids(ab) \cap both = {}
                    /\ Ids(ba) \cap both = {}
                    /\ Ids(ab) \cup Ids(ba) \cup both = reach[a] \cup reach[b]

\* Two regions whose three parts are all non-empty.
C8_Witness ==
    \E a, b \in DOMAIN regions :
        /\ \E d \in Diff(regions[a], regions[b], nodes, heads) : d # <<>>
        /\ \E d \in Diff(regions[b], regions[a], nodes, heads) : d # <<>>
        /\ RegionReach(a) \cap RegionReach(b) # {}

\* heads as the node table gives it: the stored ids no stored node names as
\* a parent.
HeadsOfNodes(ns) ==
    {n \in DOMAIN ns : \A e \in DOMAIN ns : n \notin Range(ns[e].parents)}

\* Two callers whose add_event calls, with the same payload, have returned.
SamePayloadDone(t, u) ==
    /\ t # u
    /\ th[t].pc = "done" /\ th[u].pc = "done"
    /\ th[t].kind = "add" /\ th[u].kind = "add"
    /\ th[t].event = th[u].event

\* C9: after two concurrent add_event calls of one payload, both have the
\* same id, one node is stored for it, each parent's children list names it
\* once, and heads is what the node table gives.
C9_ConcurrentAppendAtomic ==
    \A t, u \in Threads :
        SamePayloadDone(t, u) =>
            /\ th[t].result = th[u].result
            /\ \A e \in th[t].event :
                  /\ th[t].result = {e.id}
                  /\ e.id \in DOMAIN nodes
                  /\ \A p \in Range(e.parents) :
                        p \in DOMAIN children /\ Count(children[p], e.id) = 1
            /\ heads = HeadsOfNodes(nodes)

\* Two callers whose appends to one region have returned.
SameRegionDone(t, u) ==
    /\ t # u
    /\ th[t].pc = "done" /\ th[u].pc = "done"
    /\ th[t].kind = "append" /\ th[u].kind = "append"
    /\ th[t].region = th[u].region

\* C10: after two concurrent appends to one region, the event each of them
\* appended is reachable from the region's heads.
C10_NoLostHeadUpdate ==
    \A t, u \in Threads :
        SameRegionDone(t, u) =>
            th[t].result \cup th[u].result
                \subseteq Reachable(nodes, regions[th[t].region].heads)

\* The step appended to region r an event of the given op and content: the
\* region's heads are now the one id of a stored node with that op and content,
\* the region's meta and the former heads as its parent set.
FastForward(r, op, content) ==
    \E e \in regions'[r].heads :
        /\ regions'[r].heads = {e}
        /\ regions'[r].meta = regions[r].meta
        /\ e \in DOMAIN nodes'
        /\ nodes'[e].op = op
        /\ nodes'[e].content = content
        /\ nodes'[e].meta = regions[r].meta
        /\ Range(nodes'[e].parents) = regions[r].heads
        /\ Reachable(nodes, regions[r].heads)
               \subseteq Reachable(nodes', regions'[r].heads)

\* C11: observe, plan, effect and summarize on a region with heads H store a
\* node with their op tag, the region's meta and parent set H, and leave the
\* region with that node's id as its only head; what the region reached before,
\* it still reaches.
C11_AppendFastForward ==
    [][\A r \in DOMAIN regions, ts \in Clock :
          /\ \A c \in Contents :
                /\ Observe(r, c, ts) => FastForward(r, "observe", c)
                /\ Plan(r, c, ts) => FastForward(r, "plan", c)
                /\ Summarize(r, c, ts) => FastForward(r, "summarize", c)
          /\ \A t \in Tools, x \in ToolResults :
                Effect(r, t, x, ts) => FastForward(r, "effect", t \o ": " \o x)]_vars

\* A region that had two heads after a merge has appended: its one head has
\* two parents and the region's meta.
C11_Witness ==
    \E r \in DOMAIN regions : \E e \in DOMAIN nodes :
        /\ regions[r].heads = {e}
        /\ Cardinality(Range(nodes[e].parents)) = 2
        /\ nodes[e].meta = regions[r].meta
        /\ \E a, b \in DOMAIN regions :
               /\ a # r /\ b # r
               /\ regions[a].heads \cup regions[b].heads = Range(nodes[e].parents)

\* Two argument records name the same logical event: the same op, content,
\* timestamp, meta entries and set of parents.
SameFields(a, b) ==
    /\ a.op = b.op
    /\ a.content = b.content
    /\ a.timestamp = b.timestamp
    /\ DictOf(a.meta) = DictOf(b.meta)
    /\ Range(a.parents) = Range(b.parents)

\* C12: two EventNodes have the same id exactly when they have the same op,
\* content, timestamp, meta entries and set of parents, in whatever order the
\* parents and the meta entries were given.
C12_IdentityDeterministic ==
    \A i, j \in DOMAIN built :
        (built[i].id # {} /\ built[j].id # {})
            => (SameFields(built[i].args, built[j].args) <=> built[i].id = built[j].id)

\* What does hold of the code: the same, with the parents compared as lists
\* up to order, each parent named as often in the one as in the other.
IdentityDeterministicSameMultiset ==
    \A i, j \in DOMAIN built :
        (built[i].id # {} /\ built[j].id # {})
            => ((/\ SameFields(built[i].args, built[j].args)
                 /\ Sorted(built[i].args.parents) = Sorted(built[j].args.parents))
                   <=> built[i].id = built[j].id)

\* C13: from_dict(to_dict(r)) has the name, meta and heads of r, and a store
\* saved to JSON and loaded again has the same region names, each with the
\* name, meta and heads it had.
C13_RegionRoundTrip ==
    /\ \A r \in DOMAIN regions :
           \A d \in to_dict(regions[r]) : from_dict(d) = regions[r]
    /\ \A S \in SUBSET DOMAIN regions :
           \A file \in save_to_json(regions, S) :
               load_from_json(file) = [n \in S |-> regions[n]]

\* A store with a region of two heads and no meta and a region of one head
\* and a meta entry.
C13_Witness ==
    \E r, r2 \in DOMAIN regions :
        /\ Cardinality(regions[r].heads) = 2
        /\ regions[r].meta = {}
        /\ Cardinality(regions[r2].heads) = 1
        /\ regions[r2].meta # {}

\* C14: compact returns the events of the region's replay, no id twice, in
\* non-decreasing timestamp order, and the dedup-and-sort of compact applied
\* to that result returns it unchanged.
C14_CompactIdempotent ==
    \A r \in DOMAIN regions :
        \A rp \in Replay(regions[r], nodes, heads) :
            \A c \in {CompactOf(rp)} :
                /\ c \in Compact(regions[r], nodes, heads)
                /\ Ids(c) = Ids(rp)
                /\ Len(c) = Len(rp)
                /\ NoRepeat(c)
                /\ TimestampOrdered(c)
                /\ CompactOf(c) = c

\* A region that reaches two events of one timestamp and a later one.
C14_Witness ==
    \E r \in DOMAIN regions : \E e, f, g \in RegionReach(r) :
        /\ e # f
        /\ nodes[e].timestamp = nodes[f].timestamp
        /\ nodes[f].timestamp < nodes[g].timestamp

\* C15: gc(keep) takes out of the registry exactly the names that are not in
\* keep, leaves each kept name registered with the instance it had and every
\* instance with the events it had, and a second gc(keep) takes out nothing.
C15_GcByKeepSet ==
    [][\A keep \in SUBSET RuntimeNames :
          Gc(keep) =>
              /\ DOMAIN HEADS' = DOMAIN HEADS \cap keep
              /\ \A n \in DOMAIN HEADS' :
                    /\ get_head(HEADS', n) = get_head(HEADS, n)
                    /\ instances'[HEADS'[n]] = instances[HEADS[n]]
              /\ instances' = instances
              /\ gc(HEADS', keep) = HEADS']_vars

\* A registered fork holds the event it inherited from the instance it was
\* forked from, whose name gc has taken out of the registry.
C15_Witness ==
    \E n \in DOMAIN HEADS :
        LET r == instances[HEADS[n]]
        IN /\ r.parent # 0
           /\ r.events # <<>>
           /\ r.events = instances[r.parent].events
           /\ instances[r.parent].name \notin DOMAIN HEADS

\* C16: graph.heads is exactly the set of stored ids that no stored node
\* names as a parent.
C16_GraphHeadsDerived == heads = HeadsOfNodes(nodes)

\* Every parent named by a stored node is stored.
ParentsStored(ns) == \A e \in DOMAIN ns : Range(ns[e].parents) \subseteq DOMAIN ns

\* What does hold of the code: a step between two stores in which every
\* parent named is stored keeps heads equal to what the node table gives.
HeadsDerivedWhenParentsStored ==
    [][(heads = HeadsOfNodes(nodes) /\ ParentsStored(nodes) /\ ParentsStored(nodes'))
          => heads' = HeadsOfNodes(nodes')]_vars

\* The events region r reaches were appended at non-decreasing clock
\* readings: no event is older than an ancestor of it.
NonDecreasing(r) ==
    \A e, f \in RegionReach(r) :
        IsAncestor(nodes, e, f) => nodes[e].timestamp <= nodes[f].timestamp

\* The same, with no two readings equal along a line of descent.
Increasing(r) ==
    \A e, f \in RegionReach(r) :
        IsAncestor(nodes, e, f) => nodes[e].timestamp < nodes[f].timestamp

\* The sequence lists every event after all of its ancestors.
AncestorsFirst(events) ==
    \A i, j \in DOMAIN events :
        IsAncestor(nodes, events[i].id, events[j].id) => i < j

\* C17: when the timestamps of a region's events do not decrease from an
\* event to its descendants, ties included, replay lists every event after
\* all of its ancestors, and the last element of the replay of a region with
\* one head is that head's event.
C17_ReplayAppendOrder ==
    \A r \in DOMAIN regions :
        NonDecreasing(r) =>
            \A rp \in Replay(regions[r], nodes, heads) :
                /\ AncestorsFirst(rp)
                /\ \A h \in regions[r].heads :
                      regions[r].heads = {h} => rp[Len(rp)].id = h

\* What does hold of the code: the same when no event has the timestamp of
\* an ancestor of it.
ReplayAppendOrderNoTies ==
    \A r \in DOMAIN regions :
        Increasing(r) =>
            \A rp \in Replay(regions[r], nodes, heads) :
                /\ AncestorsFirst(rp)
                /\ \A h \in regions[r].heads :
                      regions[r].heads = {h} => rp[Len(rp)].id = h

\* The sequence holds exactly the stored events whose ids are in S, each once.
ExactlyOnce(events, S) ==
    /\ NoRepeat(events)
    /\ Range(events) = {nodes[e] : e \in S}

\* C18: with no start id, search_text, filter_by_op, filter_by_meta and
\* custom_query return exactly the stored events that satisfy the predicate,
\* each once, and filter_by_op(op) returns the events find_by_op(op) does.
C18_WholeStoreQueries ==
    /\ \A op \in QueryOps :
          \A scans \in {find_by_op(nodes, op)} :
              \A q \in filter_by_op(nodes, heads, op) :
                  /\ ExactlyOnce(q, {e \in DOMAIN nodes : nodes[e].op = op})
                  /\ \A f \in scans : Range(f) = Range(q)
    /\ \A text \in QueryTexts :
          \A scans \in {search(nodes, text)} :
              \A q \in search_text(nodes, heads, text) :
                  /\ ExactlyOnce(q, {e \in DOMAIN nodes :
                                        Contains(text, nodes[e].content)})
                  /\ \A f \in scans : Range(f) = Range(q)
    /\ \A key \in MetaKeys, value \in MetaValues :
          \A q \in filter_by_meta(nodes, heads, key, value) :
              ExactlyOnce(q, {e \in DOMAIN nodes : <<key, value>> \in nodes[e].meta})
    /\ \A keep \in SUBSET DOMAIN nodes :
          \A q \in custom_query(nodes, heads, keep) : ExactlyOnce(q, keep)

\* A store with two heads and an event that is not a head, holding events of
\* two ops and of two metas.
C18_Witness ==
    /\ Cardinality(heads) = 2
    /\ DOMAIN nodes \ heads # {}
    /\ \E e, f \in DOMAIN nodes :
           /\ nodes[e].op # nodes[f].op
           /\ nodes[e].meta # nodes[f].meta

\* C19: add_event with parents omitted stores a new node whose parents are
\* the graph heads of before the call (none in an empty store), and leaves
\* that node's id as the only graph head.
C19_DefaultParents ==
    [][\A op \in DirectOps, c \in Contents, m \in DirectMetas, ts \in Clock :
          AddEventDefault(op, c, m, ts) =>
              \E e \in heads' :
                  /\ heads' = {e}
                  /\ e \notin DOMAIN nodes
                  /\ e \in DOMAIN nodes'
                  /\ nodes'[e].op = op
                  /\ nodes'[e].content = c
                  /\ nodes'[e].meta = m
                  /\ Range(nodes'[e].parents) = heads
                  /\ Len(nodes'[e].parents) = Cardinality(heads)]_vars

\* The one graph head has two parents, the heads of before, and the op and
\* meta of a direct add_event call.
C19_Witness ==
    \E e \in DOMAIN nodes :
        /\ heads = {e}
        /\ Cardinality(Range(nodes[e].parents)) = 2
        /\ Range(nodes[e].parents) \subseteq DOMAIN nodes
        /\ nodes[e].op \in DirectOps
        /\ nodes[e].meta \in DirectMetas

\* The step left the store and every region that existed as they were.
PointerOnly ==
    /\ nodes' = nodes
    /\ children' = children
    /\ heads' = heads
    /\ \A x \in DOMAIN regions : regions'[x] = regions[x]

\* C20: fork and merge leave nodes, children and graph heads unchanged and
\* the heads and meta of the regions they start from as they were; the one
\* region they add is, for fork, a region with the heads and the meta of its
\* source.
C20_ForkMergePure ==
    [][/\ \A r \in DOMAIN regions, n \in ForkNames :
              Fork(r, n) =>
                  /\ PointerOnly
                  /\ DOMAIN regions' = DOMAIN regions \cup {n}
                  /\ regions'[n].heads = regions[r].heads
                  /\ regions'[n].meta = regions[r].meta
       /\ \A a, b \in DOMAIN regions, n \in MergeNames :
              Merge(a, b, n) =>
                  /\ PointerOnly
                  /\ DOMAIN regions' = DOMAIN regions \cup {MergeName(a, b, n)}]_vars

\* A store with events, a region, a fork of it with the same heads and meta,
\* and a region merged from the two.
C20_Witness ==
    \E r, f, m \in DOMAIN regions :
        /\ r # f /\ m # r /\ m # f
        /\ regions[r].heads # {}
        /\ regions[f].heads = regions[r].heads
        /\ regions[f].meta = regions[r].meta
        /\ regions[m] = MergeRegion(regions, r, f, m)
        /\ Cardinality(DOMAIN nodes) >= 2

\* C21: with regions made empty and changed only by their appends, fork and
\* merge on one graph, every head of every region is the id of a stored node
\* and every parent a stored node names is stored.
C21_NoDanglingHeads ==
    /\ \A r \in DOMAIN regions : regions[r].heads \subseteq DOMAIN nodes
    /\ ParentsStored(nodes)

\* A region merged from a region and its fork, which have both appended
\* since: it has two heads, each with a parent.
C21_Witness ==
    \E a, b, m \in DOMAIN regions :
        /\ regions[m] = MergeRegion(regions, a, b, m)
        /\ Cardinality(regions[m].heads) = 2
        /\ \A h \in regions[m].heads : nodes[h].parents # <<>>

\* The events of loaded are the events of saved in an order of non-decreasing
\* timestamp, each with the hash it had.
SameEventsByTimestamp(saved, loaded) ==
    /\ Len(loaded.events) = Len(saved.events)
    /\ Len(loaded.hashes) = Len(saved.hashes)
    /\ \A i, j \in DOMAIN loaded.events :
           i < j => loaded.events[i].timestamp <= loaded.events[j].timestamp
    /\ \E p \in ListOf(DOMAIN saved.events) :
           \A k \in DOMAIN saved.events :
               /\ loaded.events[k] = saved.events[p[k]]
               /\ loaded.hashes[k] = saved.hashes[p[k]]

\* A step that is a save_to_sqlite call: the other steps leave db and sql
\* as they are.  (A save that changes neither is a save of the region saved
\* last, unchanged, on the database it left.)
SaveStep == sql'.call = "save" /\ sqliteVars' # sqliteVars

\* A load_from_sqlite step that follows a save_to_sqlite of a region of the
\* same name that did not raise.
LoadFollowsSave ==
    /\ sql.call = "save" /\ ~sql.raised
    /\ sql'.call = "load" /\ sql'.region.name = sql.region.name

\* After the step the database holds, for the region the step saved, one
\* events row for each of its events, in their order, and one heads row.
SavedOnce ==
    LET region == sql'.region
        rows == SelectEvents(db', region.name)
        Mine(row) == row.region = region.name
    IN /\ Len(rows) = Len(region.events)
       /\ \A k \in DOMAIN rows :
              /\ rows[k].timestamp = region.events[k].timestamp
              /\ rows[k].op = region.events[k].op
              /\ rows[k].content = region.events[k].content
              /\ JsonLoads(rows[k].meta) = region.events[k].meta
              /\ rows[k].hash = region.hashes[k]
       /\ Len(SelectSeq(db'.heads, Mine)) = 1

\* C22: save_to_sqlite does not raise, on a database without the tables
\* either, and leaves both tables made; a load_from_sqlite of the same name
\* that follows it returns the same events in timestamp order with the same
\* hashes; after a save the database holds the region's rows once.
C22_SqliteSaveLoad ==
    [][/\ SaveStep =>
              /\ ~sql'.raised
              /\ {"events", "heads"} \subseteq db'.tables
              /\ SavedOnce
       /\ LoadFollowsSave =>
              /\ ~sql'.raised
              /\ SameEventsByTimestamp(sql.region, sql'.region)]_vars

\* What the code does for the first part: save_to_sqlite raises exactly on a
\* database without the events table and then leaves the database as it was;
\* when it does not raise, both tables exist and the region's rows are there
\* once, whatever rows of that name the database held.
SqliteSaveNeedsEventsTable ==
    [][SaveStep =>
           /\ sql'.raised <=> "events" \notin db.tables
           /\ sql'.raised => db' = db
           /\ ~sql'.raised => {"events", "heads"} \subseteq db'.tables /\ SavedOnce]_vars

\* The region with agent set to its name in every event, and the hashes of
\* these events.
Renamed(region) ==
    LET event(k) == [region.events[k] EXCEPT !.agent = region.name]
    IN [region EXCEPT !.events = [k \in DOMAIN region.events |-> event(k)],
                      !.hashes = [k \in DOMAIN region.events |->
                                     structural_hash(event(k))]]

\* What the code does for the second part: the loaded events are the saved
\* ones by timestamp with agent set to the name asked for, so events and
\* hashes are the saved ones when every saved event is the region's own.
SqliteRoundTripOwnEvents ==
    [][LoadFollowsSave =>
           /\ ~sql'.raised
           /\ SameEventsByTimestamp(Renamed(sql.region), sql'.region)
           /\ Renamed(sql.region) = sql.region
                  => SameEventsByTimestamp(sql.region, sql'.region)]_vars

\* A save that replaced the rows another instance of the same name had saved.
SqliteResaved ==
    /\ sql.call = "save" /\ ~sql.raised
    /\ \E j \in DOMAIN instances :
           /\ j # sql.instance
           /\ instances[j].name = sql.region.name
           /\ instances[j].events # <<>>
    /\ sql.region.events = <<>>
    /\ SelectEvents(db, sql.region.name) = <<>>
    /\ Len(db.heads) = 1

\* A region loaded with the events and the hashes of the region saved, one
\* event at least.
SqliteLoadedSame ==
    /\ sql.call = "load" /\ ~sql.raised
    /\ sql.region.events # <<>>
    /\ \E i \in DOMAIN instances :
           /\ i # sql.instance
           /\ instances[i].events = sql.region.events
           /\ instances[i].hashes = sql.region.hashes

\* A region loaded with hashes that are not the ones saved: the region saved
\* was a fork, its event the event of its source.
SqliteLoadedOtherHashes ==
    /\ sql.call = "load" /\ ~sql.raised
    /\ sql.region.events # <<>>
    /\ \E row \in Range(SelectEvents(db, sql.region.name)) :
           row.hash \notin Range(sql.region.hashes)


\* A region loaded with two events of its own, the earlier one first, from
\* the rows of a merge of two regions of its name.
SqliteLoadedByTimestamp ==
    /\ sql.call = "load" /\ ~sql.raised
    /\ Len(sql.region.events) = 2
    /\ sql.region.events[1].timestamp < sql.region.events[2].timestamp
    /\ \E i \in DOMAIN instances :
           /\ i # sql.instance
           /\ instances[i].events = sql.region.events
           /\ instances[i].hashes = sql.region.hashes

=============================================================================
